---- MODULE Spec2Model ----
(***************************************************************************)
(* The chat controller (the useChatWithGemini hook) and the Chat page that *)
(* drives it.  The hook's React state, the three backend tables it talks   *)
(* to, and every asynchronous call in flight are the state; one action per *)
(* handler, and one per network response with the code that runs up to the *)
(* next await.  Strings the code inspects (message text, session ids) are  *)
(* sequences of one-character strings.                                     *)
(***************************************************************************)
EXTENDS Naturals, Sequences, FiniteSets

\* How many calls (sendMessage or loadSession past their guards) one
\* behaviour starts.
MaxCalls == 2

\* How many network calls fail (an error answer, or no answer) in one
\* behaviour.
MaxFailures == 1

\* How many calls one behaviour of the page starts when its `session`
\* parameter changes between two sends (PageSpec).
MaxPageCalls == 3

\* null.  The code tests ids only by truthiness and never stores "", so the
\* absent id and the empty string are one value.
Null == ""

\* useAuth(): no user, or the signed-in user's id.
NoUser == "none"
Me == "u1"
Other == "u2"
Users == {NoUser, Me}

\* The hook's agentId parameter.
AgentId == "agent1"
NoConfig == "null"

\* -------------------------------------------------------------- strings

WhiteSpace == {" ", "\t", "\n"}

RECURSIVE TrimStart(_)
TrimStart(s) ==
    IF s # <<>> /\ Head(s) \in WhiteSpace THEN TrimStart(Tail(s)) ELSE s

RECURSIVE TrimEnd(_)
TrimEnd(s) ==
    IF s # <<>> /\ s[Len(s)] \in WhiteSpace
    THEN TrimEnd(SubSeq(s, 1, Len(s) - 1))
    ELSE s

\* A guard that forgets to trim.
TrimNothing(s) == s

\* String.prototype.trim
Trim(s) == TrimEnd(TrimStart(s))

HexDigits ==
    {"0", "1", "2", "3", "4", "5", "6", "7", "8", "9",
     "a", "b", "c", "d", "e", "f", "A", "B", "C", "D", "E", "F"}

DashAt == {9, 14, 19, 24}

\* The pattern without its $ anchor.
UuidRegexTestUnanchored(s) ==
    /\ Len(s) >= 36
    /\ \A i \in 1..36 : IF i \in DashAt THEN s[i] = "-" ELSE s[i] \in HexDigits

\* /^[0-9a-f]{8}-[0-9a-f]{4}-[0-9a-f]{4}-[0-9a-f]{4}-[0-9a-f]{12}$/i .test(s)
UuidRegexTest(s) ==
    /\ Len(s) = 36
    /\ \A i \in 1..36 : IF i \in DashAt THEN s[i] = "-" ELSE s[i] \in HexDigits

\* The sessions the tables hold at the start: two of the user's, one of
\* somebody else's.
S1 == "11111111-1111-1111-1111-111111111111"
S2 == "22222222-2222-2222-2222-222222222222"
S3 == "33333333-3333-3333-3333-333333333333"

\* crypto.randomUUID(): the n-th session this behaviour creates.
RandomUUID(n) ==
    <<"aaaaaaaa-aaaa-aaaa-aaaa-aaaaaaaaaaaa",
      "bbbbbbbb-bbbb-bbbb-bbbb-bbbbbbbbbbbb",
      "cccccccc-cccc-cccc-cccc-cccccccccccc",
      "dddddddd-dddd-dddd-dddd-dddddddddddd">>[n]

\* Other values of the `session` URL parameter: a uuid in upper case that
\* no row has, and strings that are no uuid.
UpperId == "ABCDEF00-0000-0000-0000-000000000000"
BadDigit == "g1111111-1111-1111-1111-111111111111"
BadTail == "11111111-1111-1111-1111-1111111111110"
BadShort == "abc"

\* The uuid whose hex digits are all d.
Uuid(d) == [i \in 1..36 |-> IF i \in DashAt THEN "-" ELSE d]

\* The characters of an id string.
Chars(s) ==
    CASE s = S1 -> Uuid("1")
      [] s = S2 -> Uuid("2")
      [] s = S3 -> Uuid("3")
      [] s = UpperId ->
            [i \in 1..36 |->
                IF i \in DashAt THEN "-"
                ELSE IF i <= 6 THEN <<"A", "B", "C", "D", "E", "F">>[i]
                ELSE "0"]
      [] s = BadDigit -> [Uuid("1") EXCEPT ![1] = "g"]
      [] s = BadTail -> Uuid("1") \o <<"0">>
      [] s = BadShort -> <<"a", "b", "c">>
      [] s = RandomUUID(1) -> Uuid("a")
      [] s = RandomUUID(2) -> Uuid("b")
      [] s = RandomUUID(3) -> Uuid("c")
      [] s = RandomUUID(4) -> Uuid("d")
      [] OTHER -> <<>>

\* Message texts a caller sends: empty, whitespace only, and a text with
\* whitespace around it.
Hi == <<" ", "h", "i", "\n">>
Inputs == {<<>>, <<" ", "\t">>, Hi}

\* The text the generation function answers a prompt with.
Reply(content) == <<"r", "e">> \o content

\* searchParams.get("session"): null when the URL has no such parameter,
\* else its value, which may be empty.
Absent == <<>>
Given(s) == <<s>>
Params ==
    {Absent} \cup
    {Given(s) : s \in {"", S1, S2, UpperId, BadDigit, BadTail, BadShort}}

VARIABLES
    user,          \* useAuth().user
    messages,      \* useState<Message[]>
    isLoading,     \* useState(false)
    sessionId,     \* useState<string | null>
    chat_sessions, \* the chat_sessions table
    chat_messages, \* the chat_messages table
    calls,         \* the sendMessage and loadSession calls, by start order
    failures,      \* how many network calls have failed
    toasts,        \* the notifications the last handler emitted
    last,          \* the last handler or continuation that ran
    sessionParam,  \* Chat: searchParams.get("session")
    urlSession,    \* Chat: the parameter in window.location
    input,         \* Chat: useState("") of the text field
    agent          \* Chat: whether the agent row has been fetched

vars ==
    <<user, messages, isLoading, sessionId, chat_sessions, chat_messages,
      calls, failures, toasts, last, sessionParam, urlSession, input, agent>>

hookVars == <<messages, isLoading, sessionId>>
dbVars == <<chat_sessions, chat_messages>>
viewVars == <<sessionParam, urlSession, input, agent>>

\* ---------------------------------------------------------------- tables

UserMessage(content) == [role |-> "user", content |-> content]
AssistantMessage(text) == [role |-> "assistant", content |-> text]

\* The database's now(): rows are never deleted, so every insert gets a
\* later created_at than the rows before it.
Now == Cardinality(chat_messages) + 1

Row(message, chatSessionId) ==
    [session_id |-> chatSessionId, role |-> message.role,
     content |-> message.content, created_at |-> Now]

RECURSIVE OrderByCreatedAt(_)
OrderByCreatedAt(rows) ==
    IF rows = {} THEN <<>>
    ELSE LET first == CHOOSE r \in rows : \A q \in rows : r.created_at <= q.created_at
         IN  <<first>> \o OrderByCreatedAt(rows \ {first})

\* select * from chat_messages where session_id = id order by created_at
SelectMessages(id) ==
    OrderByCreatedAt({r \in chat_messages : r.session_id = id})

\* data.map(msg => ({role, content}))
LoadedMessages(id) ==
    LET rows == SelectMessages(id)
    IN  [i \in 1..Len(rows) |-> [role |-> rows[i].role, content |-> rows[i].content]]

SessionRows(id) == {s \in chat_sessions : s.id = id}

InitSessions ==
    {[id |-> S1, agent_id |-> AgentId, user_id |-> Me],
     [id |-> S2, agent_id |-> AgentId, user_id |-> Other],
     [id |-> S3, agent_id |-> AgentId, user_id |-> Me]}

InitMessages ==
    {[session_id |-> S1, role |-> "user", content |-> <<"q">>, created_at |-> 1],
     [session_id |-> S2, role |-> "user", content |-> <<"z">>, created_at |-> 2],
     [session_id |-> S1, role |-> "assistant", content |-> <<"a">>, created_at |-> 3],
     [session_id |-> S3, role |-> "user", content |-> <<"w">>, created_at |-> 4]}

\* ----------------------------------------------------------------- calls

\* A call: the closure's messages and sessionId (msgs, sessionIdAtCall), the
\* locals (content; sid is currentSessionId, or loadSession's argument;
\* agentConfig; request is allMessages), where it awaits (pc), and what is
\* kept of its history: the earlier sends in flight when it started
\* (overlaps), whether resetChat or a finished loadSession replaced the
\* message list meanwhile (replaced), the created_at of the rows it stored
\* (userAt, assistantAt: 0 is none), whether a step of it failed and whether
\* it notified the user.
IdleCall ==
    [kind |-> "none", pc |-> "idle", content |-> <<>>, msgs |-> <<>>,
     sessionIdAtCall |-> Null, sid |-> Null, agentConfig |-> NoConfig,
     request |-> <<>>, overlaps |-> {}, replaced |-> FALSE,
     userAt |-> 0, assistantAt |-> 0, failed |-> FALSE, toasted |-> FALSE]

\* The slots of the calls: a behaviour of Spec or ViewSpec starts MaxCalls
\* of them, one of PageSpec MaxPageCalls.
CallIds == 1..MaxPageCalls

Idle(c) == calls[c].pc = "idle"
Done(c) == calls[c].pc = "done"
InFlight(c) == ~Idle(c) /\ ~Done(c)

\* The slot of the next call to start.
HasFree == \E c \in CallIds : Idle(c)
NextCall == CHOOSE c \in CallIds : Idle(c) /\ \A d \in CallIds : Idle(d) => c <= d

\* After this step no more than n calls have been started.
Within(n) == Cardinality({c \in CallIds : calls'[c].pc # "idle"}) <= n

\* How many sessions this behaviour has created.
Created == Cardinality(chat_sessions) - Cardinality(InitSessions)

Event(op, c, out) == [op |-> op, call |-> c, out |-> out]

Init ==
    /\ user \in Users
    /\ messages = <<>>
    /\ isLoading = FALSE
    /\ sessionId = Null
    /\ chat_sessions = InitSessions
    /\ chat_messages = InitMessages
    /\ calls = [c \in CallIds |-> IdleCall]
    /\ failures = 0
    /\ toasts = <<>>
    /\ last = Event("mount", 0, "ok")
    /\ sessionParam = Absent
    /\ urlSession = Absent
    /\ input = <<>>
    /\ agent = FALSE

\* ------------------------------------------------------------- the hook

\* What a network call can answer: a result, or (while the behaviour's
\* failures last) an error.
Answers == {TRUE} \cup (IF failures < MaxFailures THEN {FALSE} ELSE {})
Answered(ok) == failures' = IF ok THEN failures ELSE failures + 1

\* What a finished call leaves behind: its history, without the closure.
DoneCall(c, failed, toasted) ==
    [calls[c] EXCEPT !.pc = "done", !.msgs = <<>>, !.sessionIdAtCall = Null,
                     !.agentConfig = NoConfig, !.request = <<>>,
                     !.replaced = FALSE,
                     !.failed = failed, !.toasted = toasted]

\* The calls, with those in flight but c marked: the message list they
\* started from has been replaced.
Replacing(c) ==
    [d \in CallIds |->
        IF d # c /\ InFlight(d) THEN [calls[d] EXCEPT !.replaced = TRUE]
        ELSE calls[d]]

\* A catch without its finally.
FailLeavingLoading(c, op, out, titles) ==
    /\ calls' = [calls EXCEPT ![c] = DoneCall(c, TRUE, titles # <<>>)]
    /\ toasts' = titles
    /\ last' = Event(op, c, out)
    /\ isLoading' = isLoading

\* catch { toast(...) } finally { setIsLoading(false) }
Fail(c, op, out, titles) ==
    /\ calls' = [calls EXCEPT ![c] = DoneCall(c, TRUE, titles # <<>>)]
    /\ toasts' = titles
    /\ last' = Event(op, c, out)
    /\ isLoading' = FALSE

\* sendMessage(content), to its first await.
SendMessage(content) ==
    IF Trim(content) = <<>>
    THEN /\ last' = Event("sendMessage", 0, "blank")
         /\ toasts' = <<>>
         /\ UNCHANGED <<hookVars, dbVars, calls, failures>>
    ELSE IF user = NoUser
    THEN /\ last' = Event("sendMessage", 0, "unauthenticated")
         /\ toasts' = <<"Authentication required">>
         /\ UNCHANGED <<hookVars, dbVars, calls, failures>>
    ELSE /\ HasFree
         /\ messages' = Append(messages, UserMessage(content))
         /\ isLoading' = TRUE
         /\ calls' = [calls EXCEPT ![NextCall] =
                [IdleCall EXCEPT
                    !.kind = "send",
                    !.pc = IF sessionId = Null THEN "createChatSession" ELSE "saveUser",
                    !.content = content,
                    !.msgs = messages,
                    !.sessionIdAtCall = sessionId,
                    !.sid = sessionId,
                    !.overlaps =
                        {d \in CallIds : calls[d].kind = "send" /\ InFlight(d)}]]
         /\ last' = Event("sendMessage", NextCall, "started")
         /\ toasts' = <<>>
         /\ UNCHANGED <<sessionId, dbVars, failures>>

\* The chat_sessions insert answers; on success setSessionId and the user
\* message's insert is sent.
CreateChatSessionResp(c, ok) ==
    /\ calls[c].kind = "send" /\ calls[c].pc = "createChatSession"
    /\ Answered(ok)
    /\ IF ok
       THEN LET id == RandomUUID(Created + 1)
            IN  /\ chat_sessions' = chat_sessions \cup
                        {[id |-> id, agent_id |-> AgentId, user_id |-> user]}
                /\ sessionId' = id
                /\ calls' = [calls EXCEPT ![c].pc = "saveUser", ![c].sid = id]
                /\ last' = Event("createChatSession", c, "ok")
                /\ toasts' = <<>>
                /\ UNCHANGED <<messages, isLoading, chat_messages>>
       ELSE /\ Fail(c, "createChatSession", "error",
                    <<"Error creating chat session", "Error">>)
            /\ UNCHANGED <<messages, sessionId, dbVars>>

\* saveMessage(message, chatSessionId): the insert's answer; the row is
\* stored unless the call failed, and an error is not looked at.
SaveMessage(message, chatSessionId, ok) ==
    chat_messages' =
        IF ok THEN chat_messages \cup {Row(message, chatSessionId)}
        ELSE chat_messages

\* saveMessage(userMessage, currentSessionId) answers; getAgentConfig's
\* select is sent.
SaveUserResp(c, ok) ==
    /\ calls[c].kind = "send" /\ calls[c].pc = "saveUser"
    /\ Answered(ok)
    /\ SaveMessage(UserMessage(calls[c].content), calls[c].sid, ok)
    /\ calls' = [calls EXCEPT ![c].pc = "getAgentConfig",
                              ![c].userAt = IF ok THEN Now ELSE 0,
                              ![c].failed = calls[c].failed \/ ~ok]
    /\ last' = Event("saveUser", c, IF ok THEN "ok" ELSE "error")
    /\ toasts' = <<>>
    /\ UNCHANGED <<hookVars, chat_sessions>>

\* getAgentConfig answers (null on an error); the generation function is
\* invoked with allMessages = [...messages, userMessage] of the closure.
GetAgentConfigResp(c, ok) ==
    /\ calls[c].kind = "send" /\ calls[c].pc = "getAgentConfig"
    /\ Answered(ok)
    /\ calls' = [calls EXCEPT
            ![c].pc = "invoke",
            ![c].agentConfig = IF ok THEN AgentId ELSE NoConfig,
            ![c].request = Append(calls[c].msgs, UserMessage(calls[c].content)),
            ![c].failed = calls[c].failed \/ ~ok]
    /\ last' = Event("getAgentConfig", c, IF ok THEN "ok" ELSE "error")
    /\ toasts' = <<>>
    /\ UNCHANGED <<hookVars, dbVars>>

\* What functions.invoke can answer: a reply, an error, or data without
\* generatedText.
InvokeOutcomes ==
    {"ok"} \cup (IF failures < MaxFailures THEN {"error", "empty"} ELSE {})

\* A catch that rolls the optimistic user message back.
InvokeRespRollingBack(c, out) ==
    /\ calls[c].kind = "send" /\ calls[c].pc = "invoke"
    /\ Answered(out = "ok")
    /\ IF out = "ok"
       THEN /\ messages' = Append(messages, AssistantMessage(Reply(calls[c].content)))
            /\ calls' = [calls EXCEPT ![c].pc = "saveAssistant"]
            /\ last' = Event("invoke", c, "ok")
            /\ toasts' = <<>>
            /\ UNCHANGED <<isLoading, sessionId, dbVars>>
       ELSE /\ Fail(c, "invoke", out, <<"Error">>)
            /\ messages' = calls[c].msgs
            /\ UNCHANGED <<sessionId, dbVars>>

\* functions.invoke("gemini-chat") answers: an error or a missing
\* generatedText throws; a reply is appended and its insert is sent.
InvokeResp(c, out) ==
    /\ calls[c].kind = "send" /\ calls[c].pc = "invoke"
    /\ Answered(out = "ok")
    /\ IF out = "ok"
       THEN /\ messages' = Append(messages, AssistantMessage(Reply(calls[c].content)))
            /\ calls' = [calls EXCEPT ![c].pc = "saveAssistant"]
            /\ last' = Event("invoke", c, "ok")
            /\ toasts' = <<>>
            /\ UNCHANGED <<isLoading, sessionId, dbVars>>
       ELSE /\ Fail(c, "invoke", out, <<"Error">>)
            /\ UNCHANGED <<messages, sessionId, dbVars>>

\* saveMessage(assistantMessage, currentSessionId) answers; finally.
SaveAssistantResp(c, ok) ==
    /\ calls[c].kind = "send" /\ calls[c].pc = "saveAssistant"
    /\ Answered(ok)
    /\ SaveMessage(AssistantMessage(Reply(calls[c].content)), calls[c].sid, ok)
    /\ calls' = [calls EXCEPT ![c] =
            [DoneCall(c, calls[c].failed \/ ~ok, FALSE) EXCEPT
                !.assistantAt = IF ok THEN Now ELSE 0]]
    /\ isLoading' = FALSE
    /\ last' = Event("saveAssistant", c, IF ok THEN "ok" ELSE "error")
    /\ toasts' = <<>>
    /\ UNCHANGED <<messages, sessionId, chat_sessions>>

\* loadSession(id), to its first await.
LoadSession(id) ==
    IF id = Null \/ user = NoUser
    THEN /\ last' = Event("loadSession", 0,
                          IF id = Null THEN "no id" ELSE "unauthenticated")
         /\ toasts' = <<"Error loading chat session">>
         /\ isLoading' = FALSE
         /\ UNCHANGED <<messages, sessionId, dbVars, calls, failures>>
    ELSE /\ HasFree
         /\ sessionId' = id
         /\ isLoading' = TRUE
         /\ calls' = [calls EXCEPT ![NextCall] =
                [IdleCall EXCEPT !.kind = "load", !.pc = "fetchSession",
                                 !.msgs = messages,
                                 !.sessionIdAtCall = sessionId,
                                 !.sid = id]]
         /\ last' = Event("loadSession", NextCall, "started")
         /\ toasts' = <<>>
         /\ UNCHANGED <<messages, dbVars, failures>>

\* What the chat_sessions select of .eq("id", id).single() can answer: an
\* error (always so when no row matches), or the row, which is the user's
\* or not.
FetchSessionOutcomes(id) ==
    (IF failures < MaxFailures THEN {"error"} ELSE {}) \cup
    (IF SessionRows(id) = {} THEN {"not found"}
     ELSE IF \E s \in SessionRows(id) : s.user_id # user THEN {"denied"}
     ELSE {"ok"})

\* The chat_sessions select answers: an error, no row or another owner
\* throws; otherwise the chat_messages select is sent.
FetchSessionResp(c, out) ==
    /\ calls[c].kind = "load" /\ calls[c].pc = "fetchSession"
    /\ out \in FetchSessionOutcomes(calls[c].sid)
    /\ Answered(out # "error")
    /\ IF out = "ok"
       THEN /\ calls' = [calls EXCEPT ![c].pc = "fetchMessages"]
            /\ last' = Event("fetchSession", c, "ok")
            /\ toasts' = <<>>
            /\ UNCHANGED <<hookVars, dbVars>>
       ELSE /\ Fail(c, "fetchSession", out, <<"Error loading chat session">>)
            /\ UNCHANGED <<messages, sessionId, dbVars>>

\* The chat_messages select answers; setMessages(loadedMessages); finally.
FetchMessagesResp(c, ok) ==
    /\ calls[c].kind = "load" /\ calls[c].pc = "fetchMessages"
    /\ Answered(ok)
    /\ IF ok
       THEN /\ messages' = LoadedMessages(calls[c].sid)
            /\ calls' = [Replacing(c) EXCEPT ![c] = DoneCall(c, FALSE, FALSE)]
            /\ isLoading' = FALSE
            /\ last' = Event("fetchMessages", c, "ok")
            /\ toasts' = <<>>
            /\ UNCHANGED <<sessionId, dbVars>>
       ELSE /\ Fail(c, "fetchMessages", "error", <<"Error loading chat session">>)
            /\ UNCHANGED <<messages, sessionId, dbVars>>

\* A reset that forgets the session id.
ResetChatKeepingSession ==
    /\ messages' = <<>>
    /\ last' = Event("resetChat", 0, "ok")
    /\ toasts' = <<>>
    /\ calls' = Replacing(0)
    /\ UNCHANGED <<isLoading, sessionId, dbVars, failures>>

ResetChat ==
    /\ messages' = <<>>
    /\ sessionId' = Null
    /\ last' = Event("resetChat", 0, "ok")
    /\ toasts' = <<>>
    /\ calls' = Replacing(0)
    /\ UNCHANGED <<isLoading, dbVars, failures>>

\* ---------------------------------------------- the hook under any caller

\* Ids a caller of the hook loads: none, one no row has, and those of the
\* stored sessions, the ones this behaviour created included.
LoadIds == {Null, UpperId} \cup {s.id : s \in chat_sessions}

CallSendMessage ==
    /\ \E content \in Inputs : SendMessage(content)
    /\ Within(MaxCalls)
    /\ UNCHANGED <<user, viewVars>>

CallLoadSession ==
    /\ \E id \in LoadIds : LoadSession(id)
    /\ Within(MaxCalls)
    /\ UNCHANGED <<user, viewVars>>

CallResetChat ==
    /\ ResetChat
    /\ UNCHANGED <<user, viewVars>>

\* A network call answers and the call that awaits it runs to its next
\* await.
CreateChatSessionAnswers ==
    /\ \E c \in CallIds : \E ok \in Answers : CreateChatSessionResp(c, ok)
    /\ UNCHANGED <<user, viewVars>>

SaveUserAnswers ==
    /\ \E c \in CallIds : \E ok \in Answers : SaveUserResp(c, ok)
    /\ UNCHANGED <<user, viewVars>>

GetAgentConfigAnswers ==
    /\ \E c \in CallIds : \E ok \in Answers : GetAgentConfigResp(c, ok)
    /\ UNCHANGED <<user, viewVars>>

InvokeAnswers ==
    /\ \E c \in CallIds : \E out \in InvokeOutcomes : InvokeResp(c, out)
    /\ UNCHANGED <<user, viewVars>>

SaveAssistantAnswers ==
    /\ \E c \in CallIds : \E ok \in Answers : SaveAssistantResp(c, ok)
    /\ UNCHANGED <<user, viewVars>>

FetchSessionAnswers ==
    /\ \E c \in CallIds :
          \E out \in FetchSessionOutcomes(calls[c].sid) : FetchSessionResp(c, out)
    /\ UNCHANGED <<user, viewVars>>

FetchMessagesAnswers ==
    /\ \E c \in CallIds : \E ok \in Answers : FetchMessagesResp(c, ok)
    /\ UNCHANGED <<user, viewVars>>

Next ==
    \/ CallSendMessage
    \/ CallLoadSession
    \/ CallResetChat
    \/ CreateChatSessionAnswers
    \/ SaveUserAnswers
    \/ GetAgentConfigAnswers
    \/ InvokeAnswers
    \/ SaveAssistantAnswers
    \/ FetchSessionAnswers
    \/ FetchMessagesAnswers

Spec == Init /\ [][Next]_vars

\* The network call that call c awaits returns, with a result or an error.
Returns(c) ==
    /\ \/ \E ok \in Answers :
             \/ CreateChatSessionResp(c, ok)
             \/ SaveUserResp(c, ok)
             \/ GetAgentConfigResp(c, ok)
             \/ SaveAssistantResp(c, ok)
             \/ FetchMessagesResp(c, ok)
       \/ \E out \in InvokeOutcomes : InvokeResp(c, out)
       \/ \E out \in FetchSessionOutcomes(calls[c].sid) : FetchSessionResp(c, out)
    /\ UNCHANGED <<user, viewVars>>

\* The hook when every network call eventually returns.
FairSpec == Spec /\ \A c \in CallIds : WF_vars(Returns(c))

\* ------------------------------------------------------- the Chat page

\* Texts typed into the field.
Typed == {<<" ">>, Hi}

\* The effect of [id, sessionParam, ...]: a new `session` parameter is
\* validated and loaded.
Navigate ==
    \E p \in Params :
        /\ p # sessionParam
        /\ sessionParam' = p
        /\ UNCHANGED <<user, input, agent>>
        /\ IF p = Absent \/ p = Given("")
           THEN /\ urlSession' = p
                /\ last' = Event("effect", 0, "no session")
                /\ toasts' = <<>>
                /\ UNCHANGED <<hookVars, dbVars, calls, failures>>
           ELSE IF ~UuidRegexTest(Chars(p[1]))
           THEN /\ urlSession' = Absent
                /\ last' = Event("effect", 0, "invalid")
                /\ toasts' = <<"Invalid Session">>
                /\ UNCHANGED <<hookVars, dbVars, calls, failures>>
           ELSE /\ urlSession' = p
                /\ LoadSession(p[1])

\* fetchAgent's select answers: setAgent(data), or a notification.
FetchAgentAnswers ==
    /\ ~agent
    /\ \E ok \in Answers :
          /\ Answered(ok)
          /\ agent' = ok
          /\ last' = Event("fetchAgent", 0, IF ok THEN "ok" ELSE "error")
          /\ toasts' = IF ok THEN <<>> ELSE <<"Error fetching agent">>
    /\ UNCHANGED <<user, hookVars, dbVars, calls, sessionParam, urlSession, input>>

\* onChange of the text field, which is disabled while isLoading.
OnChange ==
    /\ ~isLoading
    /\ \E text \in Typed :
          /\ text # input
          /\ input' = text
    /\ last' = Event("onChange", 0, "ok")
    /\ toasts' = <<>>
    /\ UNCHANGED <<user, hookVars, dbVars, calls, failures, sessionParam, urlSession, agent>>

HandleSendMessage ==
    /\ IF Trim(input) = <<>> \/ isLoading
       THEN /\ last' = Event("handleSendMessage", 0, "ignored")
            /\ toasts' = <<>>
            /\ UNCHANGED <<hookVars, dbVars, calls, failures, input>>
       ELSE /\ SendMessage(input)
            /\ input' = <<>>
    /\ UNCHANGED <<user, sessionParam, urlSession, agent>>

\* The reset button, rendered once the agent is there.
HandleResetChat ==
    /\ agent
    /\ ResetChat
    /\ UNCHANGED <<user, viewVars>>

\* The page's handlers that start calls, in a behaviour of MaxCalls calls.
ViewNavigate == Navigate /\ Within(MaxCalls)
ViewHandleSendMessage == HandleSendMessage /\ Within(MaxCalls)

ViewNext ==
    \/ ViewNavigate
    \/ FetchAgentAnswers
    \/ OnChange
    \/ ViewHandleSendMessage
    \/ HandleResetChat
    \/ CreateChatSessionAnswers
    \/ SaveUserAnswers
    \/ GetAgentConfigAnswers
    \/ InvokeAnswers
    \/ SaveAssistantAnswers
    \/ FetchSessionAnswers
    \/ FetchMessagesAnswers

ViewSpec == Init /\ [][ViewNext]_vars

\* The values the `session` parameter takes in PageSpec: none, and the
\* user's session S1.
PageParams == {Absent, Given(S1)}

\* The page's handlers that start calls, in a behaviour of MaxPageCalls
\* calls whose parameter is one of PageParams.
PageNavigate == Navigate /\ sessionParam' \in PageParams
PageHandleSendMessage == HandleSendMessage /\ Within(MaxPageCalls)

PageNext ==
    \/ PageNavigate
    \/ FetchAgentAnswers
    \/ OnChange
    \/ PageHandleSendMessage
    \/ HandleResetChat
    \/ CreateChatSessionAnswers
    \/ SaveUserAnswers
    \/ GetAgentConfigAnswers
    \/ InvokeAnswers
    \/ SaveAssistantAnswers
    \/ FetchSessionAnswers
    \/ FetchMessagesAnswers

PageSpec == Init /\ [][PageNext]_vars

\* ------------------------------------------------------------ properties

IsPrefix(a, b) == Len(a) <= Len(b) /\ SubSeq(b, 1, Len(a)) = a

Sends == {c \in CallIds : calls[c].kind = "send"}
Loads == {c \in CallIds : calls[c].kind = "load"}

\* c finishes in this step.
Finishes(c) == InFlight(c) /\ calls'[c].pc = "done"

\* The session id's row belongs to somebody else.
OwnedByAnother(id) == \E s \in chat_sessions : s.id = id /\ s.user_id # user

\* The rows stored under id, read in ascending created_at, are exactly list.
IsPersistedSequence(list, id) ==
    LET rows == {r \in chat_messages : r.session_id = id}
    IN  /\ Len(list) = Cardinality(rows)
        /\ \A r \in rows :
              list[Cardinality({q \in rows : q.created_at <= r.created_at})]
                  = [role |-> r.role, content |-> r.content]

\* C1: a loadSession that reads a session owned by another user fails with
\* a notification, and leaves the message list and the session id as they
\* were when it was called.
C1_DeniedLoadLeavesState ==
    [][\A c \in Loads :
          (Finishes(c) /\ OwnedByAnother(calls[c].sid) /\ last'.out # "error") =>
              /\ calls'[c].failed
              /\ toasts' = <<"Error loading chat session">>
              /\ messages' = calls[c].msgs
              /\ sessionId' = calls[c].sessionIdAtCall]_vars

\* C2: a sendMessage call of which any step failed has notified the user.
C2_FailedSendNotifies ==
    \A c \in Sends : (Done(c) /\ calls[c].failed) => calls[c].toasted

\* C3: when a sendMessage whose generation returned a reply has completed,
\* the list ends with its user message and then the reply, and both are
\* rows of chat_messages under one session id.
C3_SuccessfulSendPersistsBoth ==
    \A c \in Sends :
        (last.op = "saveAssistant" /\ last.call = c) =>
            LET n == Len(messages)
                u == UserMessage(calls[c].content)
                a == AssistantMessage(Reply(calls[c].content))
            IN  /\ n >= 2
                /\ messages[n - 1] = u
                /\ messages[n] = a
                /\ \E ru, ra \in chat_messages :
                      /\ ru.session_id = ra.session_id
                      /\ ru.role = u.role /\ ru.content = u.content
                      /\ ra.role = a.role /\ ra.content = a.content

\* C4: of two sendMessage calls, the second started before the first
\* resolved, that both succeeded, the four rows are under one session and
\* in the order user 1, assistant 1, user 2, assistant 2.
C4_OverlappingSendsKeepOrder ==
    \A c1, c2 \in Sends :
        (/\ Done(c1) /\ Done(c2)
         /\ ~calls[c1].failed /\ ~calls[c2].failed
         /\ c1 \in calls[c2].overlaps) =>
            /\ calls[c1].sid = calls[c2].sid
            /\ calls[c1].userAt < calls[c1].assistantAt
            /\ calls[c1].assistantAt < calls[c2].userAt
            /\ calls[c2].userAt < calls[c2].assistantAt

AllWhiteSpace(s) == \A i \in 1..Len(s) : s[i] \in {" ", "\t", "\n"}

\* C5: a sendMessage with empty or whitespace-only text, or without a user,
\* changes neither the message list, the session id nor isLoading, and
\* starts no network call.
C5_BlankOrUnauthenticatedSendIsNoOp ==
    [][\A content \in Inputs :
          ((AllWhiteSpace(content) \/ user = NoUser) /\ SendMessage(content)) =>
              UNCHANGED <<messages, sessionId, isLoading, calls,
                          chat_sessions, chat_messages, failures>>]_vars

\* A blank sendMessage has just returned while a call is in flight and the
\* list holds messages.
C5_Witness ==
    /\ last = Event("sendMessage", 0, "blank")
    /\ messages # <<>>
    /\ isLoading
    /\ \E c \in CallIds : InFlight(c)

\* C6: right after resetChat the message list is empty and the session id
\* is null, whatever was in flight.
C6_ResetClears ==
    last.op = "resetChat" => (messages = <<>> /\ sessionId = Null)

\* resetChat has just run while a sendMessage and a loadSession are in
\* flight.
C6_Witness ==
    /\ last.op = "resetChat"
    /\ \E c \in Sends : InFlight(c)
    /\ \E c \in Loads : InFlight(c)

LowerHex == {"0", "1", "2", "3", "4", "5", "6", "7", "8", "9",
             "a", "b", "c", "d", "e", "f"}
UpperHex == {"A", "B", "C", "D", "E", "F"}

\* 8-4-4-4-12 hexadecimal digits, of either case, with dashes between.
MatchesUuidPattern(cs) ==
    /\ Len(cs) = 8 + 1 + 4 + 1 + 4 + 1 + 4 + 1 + 12
    /\ \A i \in 1..Len(cs) :
          IF i \in {8 + 1, 8 + 4 + 2, 8 + 4 + 4 + 3, 8 + 4 + 4 + 4 + 4}
          THEN cs[i] = "-"
          ELSE cs[i] \in LowerHex \cup UpperHex

\* C7: the page calls loadSession only with a `session` parameter that
\* matches the uuid pattern; for any other value it notifies and strips the
\* parameter from the URL.
C7_InvalidParamNeverLoaded ==
    /\ \A c \in Loads : MatchesUuidPattern(Chars(calls[c].sid))
    /\ (sessionParam # Absent /\ ~MatchesUuidPattern(Chars(sessionParam[1]))) =>
          /\ urlSession = Absent
          /\ last.op = "effect" => toasts = <<"Invalid Session">>

\* C7, amended: the same, the notification and the stripping for a value
\* that is not empty; an empty value is passed over in silence.
C7_InvalidNonEmptyParamNeverLoaded ==
    /\ \A c \in Loads : MatchesUuidPattern(Chars(calls[c].sid))
    /\ (/\ sessionParam # Absent
        /\ sessionParam[1] # ""
        /\ ~MatchesUuidPattern(Chars(sessionParam[1]))) =>
          /\ urlSession = Absent
          /\ last.op = "effect" => toasts = <<"Invalid Session">>
    /\ sessionParam = Given("") =>
          /\ urlSession = Given("")
          /\ last.op = "effect" => toasts = <<>>

\* The effect has just rejected a parameter that is a uuid followed by one
\* more digit.
C7_Witness ==
    /\ last = Event("effect", 0, "invalid")
    /\ sessionParam = Given(BadTail)
    /\ toasts = <<"Invalid Session">>
    /\ urlSession = Absent

\* C8: when sendMessage invokes the generation function, the request's
\* messages are the message list of that moment.
C8_RequestIsCurrentList ==
    \A c \in Sends :
        (last.op = "getAgentConfig" /\ last.call = c) =>
            calls[c].request = messages

\* C9: when a sendMessage call fails, the list it started from is still a
\* prefix of the message list and its user message is still in the list.
C9_FailedSendKeepsList ==
    [][\A c \in Sends :
          (Finishes(c) /\ calls'[c].failed) =>
              /\ IsPrefix(calls[c].msgs, messages')
              /\ \E i \in 1..Len(messages') :
                    messages'[i] = UserMessage(calls[c].content)]_vars

\* C9, amended: the same, for a call during which no resetChat and no
\* finished loadSession replaced the list; the user message then follows
\* the list the call started from.
C9_FailedSendKeepsListUnlessReplaced ==
    [][\A c \in Sends :
          (Finishes(c) /\ calls'[c].failed /\ ~calls[c].replaced) =>
              IsPrefix(Append(calls[c].msgs, UserMessage(calls[c].content)),
                       messages')]_vars

\* A second sendMessage has just failed at the generation function, after a
\* first whose messages are in the list.
C9_Witness ==
    /\ last.op = "invoke" /\ last.out = "error"
    /\ last.call \in Sends
    /\ Len(messages) = 3
    /\ messages[3].role = "user"

\* C10: when a loadSession has succeeded, the message list is exactly the
\* rows stored under its id in ascending created_at, and the session id is
\* its id.
C10_LoadReplacesState ==
    \A c \in Loads :
        (last = Event("fetchMessages", c, "ok")) =>
            /\ IsPersistedSequence(messages, calls[c].sid)
            /\ sessionId = calls[c].sid

\* C11: while a call of sendMessage or loadSession is in flight, isLoading
\* is true, also when calls overlap.
C11_InFlightImpliesLoading ==
    (\E c \in CallIds : InFlight(c)) => isLoading

\* The current user's rows of chat_sessions with this id.
OwnRows(id) == {s \in SessionRows(id) : s.user_id = user}

\* C12: while a chat_messages insert of a sendMessage is awaited, its
\* session id is that of exactly one chat_sessions row, a row of the
\* current user.
C12_InsertUnderOwnSession ==
    \A c \in Sends :
        calls[c].pc \in {"saveUser", "saveAssistant"} =>
            /\ Cardinality(SessionRows(calls[c].sid)) = 1
            /\ Cardinality(OwnRows(calls[c].sid)) = 1

\* C13: a sendMessage creates a chat_sessions row only if it is the first
\* of its conversation (no earlier send of the conversation, one that was
\* in flight when it started and has seen no resetChat since, is still
\* under way); the row it creates is the only new one and has the calling
\* user as owner and the hook's agent id; and a sendMessage that starts
\* when the session id is set uses that id and creates nothing.
C13_OneSessionPerConversation ==
    [][/\ \A c \in Sends :
             (calls[c].pc = "createChatSession" /\ calls'[c].pc = "saveUser") =>
                 /\ chat_sessions' \ chat_sessions =
                        {[id |-> calls'[c].sid, agent_id |-> AgentId,
                          user_id |-> user]}
                 /\ ~\E d \in calls[c].overlaps :
                        InFlight(d) /\ ~calls[d].replaced
       /\ \A c \in CallIds :
             (Idle(c) /\ calls'[c].kind = "send" /\ sessionId # Null) =>
                 /\ calls'[c].pc = "saveUser"
                 /\ calls'[c].sid = sessionId]_vars

\* The state of the conversation: Active when the session id is set,
\* SessionPending when it is not and a send that has no session yet is in
\* flight, Empty when it is not and there are no messages.
ConversationState ==
    IF sessionId # Null THEN "Active"
    ELSE IF \E c \in Sends : InFlight(c) /\ calls[c].sid = Null
    THEN "SessionPending"
    ELSE IF messages = <<>> THEN "Empty"
    ELSE "none"

\* C14: the conversation is always Empty, SessionPending or Active, so that
\* it is Empty or Active once no call is in flight.
C14_EmptyPendingOrActive ==
    ConversationState \in {"Empty", "SessionPending", "Active"}

\* C15: every assistant message of the message list is a row of
\* chat_messages: a reply is stored before it is appended.
C15_VisibleAssistantIsPersisted ==
    \A i \in 1..Len(messages) :
        messages[i].role = "assistant" =>
            \E r \in chat_messages :
                r.role = "assistant" /\ r.content = messages[i].content

\* C16: when every network call eventually returns, every call of
\* sendMessage and loadSession that has started completes, and while no call
\* is in flight isLoading is false.
C16_CallsCompleteAndLoadingClears ==
    /\ \A c \in CallIds : InFlight(c) ~> Done(c)
    /\ []((\A c \in CallIds : ~InFlight(c)) => ~isLoading)

\* A sendMessage that failed with a notification and a loadSession have
\* both completed, and isLoading is false.
C16_Witness ==
    /\ \E c \in Sends : Done(c) /\ calls[c].failed /\ calls[c].toasted
    /\ \E c \in Loads : Done(c)
    /\ \A c \in CallIds : ~InFlight(c)
    /\ ~isLoading

\* C17: when the later to finish of two successful loadSession calls, a
\* started before b, has finished and the session id is not null, the
\* session id is b's and the message list is the rows stored under b's id
\* in ascending created_at, whichever of the two resolved first.
C17_OverlappingLoadsEndAtLast ==
    [][\A a, b \in Loads :
          (/\ a < b
           /\ \/ Finishes(a) /\ Done(b)
              \/ Finishes(b) /\ Done(a)
           /\ ~calls'[a].failed /\ ~calls'[b].failed
           /\ sessionId' # Null) =>
              /\ sessionId' = calls[b].sid
              /\ IsPersistedSequence(messages', calls[b].sid)]_vars

\* C18: when a sendMessage finishes during which resetChat ran, no other
\* call having been started, the message list is empty and the session id
\* is null.
C18_ResetSurvivesSend ==
    [][\A c \in Sends :
          (/\ Finishes(c)
           /\ calls[c].replaced
           /\ \A d \in CallIds \ {c} : Idle(d)) =>
              /\ messages' = <<>>
              /\ sessionId' = Null]_vars

\* C19: the page has at most one sendMessage call in flight.
C19_OneSendInFlight ==
    Cardinality({c \in Sends : InFlight(c)}) <= 1

====
